---- MODULE Spec2Model ----
(***************************************************************************)
(* The batched 2D renderer of engine/src/renderer/renderer2d.cpp as a      *)
(* state machine.  The process-wide s_renderer object is the state; every  *)
(* public entry point of hyp::Renderer2D is one action.  The graphics       *)
(* device is modelled by the log of the draw commands it received.  The    *)
(* game layer of part_000 (Conway's Game of Life on a board of cells) is   *)
(* modelled next to it.                                                    *)
(***************************************************************************)
EXTENDS Integers, Sequences, FiniteSets, TLC

(***************************************************************************)
(* Sizes.  The program's limits are 1000 quads, 32 texture slots and 32    *)
(* lights; the model keeps every relation between them that the code uses  *)
(* (maxQuad is even, maxVertices = 4 * maxQuad, maxIndices = 6 * maxQuad)  *)
(* and scales the three numbers down.                                      *)
(***************************************************************************)
HalfMaxQuad == 2
NumTextureSlots == 3
NumLights == 2
\* calls the caller makes after init() when every entry point is in play
MaxOps == 6
\* columns of the game's board
BoardCols == 3

maxLight == NumLights
maxQuad == 2 * HalfMaxQuad
maxVertices == maxQuad * 4
maxIndices == maxQuad * 6
maxTextureSlots == NumTextureSlots
\* the game's board is 50 by 50; the model's has 3 rows, so that a cell can
\* have all 8 neighbours on the board
row == 3
col == BoardCols

\* texture handles the caller owns; one more than the slot table can hold
Textures == 1 .. (maxTextureSlots + 1)
\* the renderer's own default white texture, and an unset hyp::Ref
defaultTexture == 0
nullRef == 0 - 1
\* light descriptors the caller owns
Lights == 1 .. 2

VARIABLES s_renderer, device, hist, game, s_older

vars == <<s_renderer, device, hist, game, s_older>>

\* A default-constructed QuadVertex, as vertices.resize() makes them.
QuadVertex == [transformIndex |-> 0, textureIndex |-> 0]

RECURSIVE Repeat(_, _)
Repeat(x, n) == IF n = 0 THEN <<>> ELSE <<x>> \o Repeat(x, n - 1)

\* hyp::Texture2D::operator==, identity of the device texture
TextureEq(a, b) == a = b

(***************************************************************************)
(* The helpers take and return the pair m = [s: s_renderer, d: device].    *)
(***************************************************************************)
\* a reset that leaves indexCount as it was
QuadData_resetKeepIndexCount(m) ==
    [m EXCEPT !.s.quad.vertices = <<>>, !.s.quad.transforms = 0,
              !.s.quad.transformIndexCount = 0]

QuadData_reset(m) ==
    [m EXCEPT !.s.quad = [vertices |-> <<>>, transforms |-> 0,
                          indexCount |-> 0, transformIndexCount |-> 0]]

LineData_reset(m) == [m EXCEPT !.s.line.vertices = 0]

CircleData_reset(m) == [m EXCEPT !.s.circle = [vertices |-> 0, indexCount |-> 0]]

\* a light count that ignores the enabled flag
flushedLightCountAlways(m) == m.s.lighting.lightCount

\* the "noLights" uniform flushQuad sets
flushedLightCount(m) ==
    IF m.s.lighting.enabled THEN m.s.lighting.lightCount ELSE 0

flushQuad(m) ==
    IF Len(m.s.quad.vertices) = 0 THEN m
    ELSE [m EXCEPT !.d.quadDraws = @ + 1,
                   !.d.quadIndices = @ + m.s.quad.indexCount,
                   !.d.noLights = flushedLightCount(m),
                   !.d.lightBuffer = IF m.s.lighting.enabled
                                     THEN m.s.lighting.lights ELSE @,
                   !.d.overrun = @ \/ Len(m.s.quad.vertices) > maxVertices
                                   \/ m.s.quad.transforms > maxQuad
                                   \/ m.s.quad.indexCount > maxIndices,
                   !.s.stats.quadCount = @ + m.s.quad.transforms,
                   !.s.stats.drawCalls = @ + 1]

\* a quad rollover that empties the light list as startBatch does
nextQuadBatchClearLights(m) ==
    [QuadData_reset(flushQuad(m)) EXCEPT !.s.textureSlotIndex = 1,
                                         !.s.lighting.lights = <<>>,
                                         !.s.lighting.lightCount = 0]

\* a quad rollover that frees the texture slots and keeps the quads
nextQuadBatchKeepQuads(m) == [flushQuad(m) EXCEPT !.s.textureSlotIndex = 1]

\* a quad rollover that empties the line batch as well
nextQuadBatchAndLines(m) ==
    [LineData_reset(QuadData_reset(flushQuad(m))) EXCEPT !.s.textureSlotIndex = 1]

nextQuadBatch(m) ==
    [QuadData_reset(flushQuad(m)) EXCEPT !.s.textureSlotIndex = 1]

flushLine(m) ==
    IF m.s.line.vertices = 0 THEN m
    ELSE [m EXCEPT !.d.lineDraws = @ + 1,
                   !.d.lineVertices = @ + m.s.line.vertices,
                   !.d.overrun = @ \/ m.s.line.vertices > maxVertices,
                   !.s.stats.lineCount = @ + (m.s.line.vertices \div 2),
                   !.s.stats.drawCalls = @ + 1]

nextLineBatch(m) == LineData_reset(flushLine(m))

flushCircle(m) ==
    IF m.s.circle.indexCount = 0 THEN m
    ELSE [m EXCEPT !.d.circleDraws = @ + 1,
                   !.d.circleIndices = @ + m.s.circle.indexCount,
                   !.d.overrun = @ \/ m.s.circle.vertices > maxVertices
                                   \/ m.s.circle.indexCount > maxIndices]

flush(m) == flushCircle(flushLine(flushQuad(m)))

\* a reset that leaves the texture slot table as it was
startBatchKeepSlots(m) ==
    [CircleData_reset(LineData_reset(QuadData_reset(m))) EXCEPT
        !.s.stats = [drawCalls |-> 0, lineCount |-> 0, quadCount |-> 0],
        !.s.lighting.lights = <<>>,
        !.s.lighting.lightCount = 0]

startBatch(m) ==
    [CircleData_reset(LineData_reset(QuadData_reset(m))) EXCEPT
        !.s.stats = [drawCalls |-> 0, lineCount |-> 0, quadCount |-> 0],
        !.s.lighting.lights = <<>>,
        !.s.lighting.lightCount = 0,
        !.s.textureSlotIndex = 1]

nextBatch(m) == startBatch(flush(m))

\* the device's log of a frame: the draw calls of each kind, the indices
\* and line vertices they drew, whether an upload or a draw call was
\* larger than the vertex, index or transform buffer made for it in init(),
\* the "noLights" uniform and the light buffer as last set; and with it
\* whether HYP_ASSERT_CORE reported a failure and whether a texture was
\* stored past the end of the slot table
NewFrame == [quadDraws |-> 0, quadIndices |-> 0, lineDraws |-> 0,
             lineVertices |-> 0, circleDraws |-> 0, circleIndices |-> 0,
             overrun |-> FALSE, noLights |-> 0, lightBuffer |-> <<>>,
             assertFailed |-> FALSE, slotOverrun |-> FALSE]

\* beginScene also uploads the camera matrix: the device starts a new frame log
beginScene(m) == [startBatch(m) EXCEPT !.d = NewFrame]

\* an endScene that empties the batches once they are drawn
endSceneAndReset(m) == startBatch(flush(m))

endScene(m) == flush(m)

enableLighting(m, value) == [m EXCEPT !.s.lighting.enabled = value]

\* a capacity test that lets one light too many in
addLightOffByOne(m, light) ==
    IF m.s.lighting.lightCount > maxLight THEN m
    ELSE [m EXCEPT !.s.lighting.lights = Append(@, light),
                   !.s.lighting.lightCount = @ + 1]

addLight(m, light) ==
    IF m.s.lighting.lightCount >= maxLight THEN m
    ELSE [m EXCEPT !.s.lighting.lights = Append(@, light),
                   !.s.lighting.lightCount = @ + 1]

\* the four push_back calls of one quad, then the transform
appendQuad(m, textureIndex) ==
    LET vertex == [transformIndex |-> m.s.quad.transformIndexCount,
                   textureIndex |-> textureIndex]
    IN [m EXCEPT !.s.quad.vertices = @ \o Repeat(vertex, 4),
                 !.s.quad.transforms = @ + 1,
                 !.s.quad.transformIndexCount = @ + 1,
                 !.s.quad.indexCount = @ + 6]

\* a capacity test that never fires
quadBatchNeverFull(m) == m.s.quad.transforms > maxQuad

\* whether the untextured overload rolls the batch over
quadBatchFull(m) == m.s.quad.transforms = maxQuad

drawQuad(m) ==
    appendQuad(IF quadBatchFull(m) THEN nextQuadBatch(m) ELSE m, 0)

\* a lookup that starts one slot late
findTextureSlotFrom2(m, texture) ==
    LET hits == {i \in 2 .. (m.s.textureSlotIndex - 1) :
                    TextureEq(m.s.textureSlots[i], texture)}
    IN IF hits = {} THEN 0 ELSE CHOOSE i \in hits : \A j \in hits : i <= j

\* a lookup that never finds the texture
findTextureSlotNever(m, texture) == 0

\* the lookup loop of the textured overload: the first slot in
\* [1, textureSlotIndex) holding the texture, 0 when there is none
findTextureSlot(m, texture) ==
    LET hits == {i \in 1 .. (m.s.textureSlotIndex - 1) :
                    TextureEq(m.s.textureSlots[i], texture)}
    IN IF hits = {} THEN 0 ELSE CHOOSE i \in hits : \A j \in hits : i <= j

\* a slot capacity test that fires one slot late
textureSlotsFullLate(m) == m.s.textureSlotIndex = maxTextureSlots + 1

\* a slot capacity test that fires one slot early
textureSlotsFullEarly(m) == m.s.textureSlotIndex = maxTextureSlots - 1

\* whether the textured overload rolls the batch over for a new texture
textureSlotsFull(m) == m.s.textureSlotIndex = maxTextureSlots

drawQuadTextured(m, texture) ==
    LET found == findTextureSlot(m, texture)
    IN IF found # 0 THEN appendQuad(m, found)
       ELSE LET n == IF textureSlotsFull(m) THEN nextQuadBatch(m) ELSE m
                slot == n.s.textureSlotIndex
            IN appendQuad([n EXCEPT
                    !.d.assertFailed = @ \/ slot = maxTextureSlots,
                    !.d.slotOverrun = @ \/ slot >= maxTextureSlots,
                    !.s.textureSlots = IF slot < maxTextureSlots
                                       THEN [@ EXCEPT ![slot] = texture] ELSE @,
                    !.s.textureSlotIndex = slot + 1], slot)

\* whether drawLine rolls the line batch over after its append
lineBatchFull(m) == m.s.line.vertices = maxQuad

drawLine(m) ==
    LET n == [m EXCEPT !.s.line.vertices = @ + 2]
    IN IF lineBatchFull(n) THEN nextLineBatch(n) ELSE n

drawCircle(m) ==
    [m EXCEPT !.s.circle.vertices = @ + 4, !.s.circle.indexCount = @ + 6]

(***************************************************************************)
(* The older variant of the renderer (part_001): quads and lines only, 6   *)
(* vertices per quad, no textures.  Its helpers take and return its own    *)
(* s_renderer object, here s_older; a batch is the number of its vertices. *)
(***************************************************************************)
older_maxVertices == maxQuad * 6

reset_quad(o) ==
    [o EXCEPT !.quad = [vertices |-> 0, transforms |-> 0, indexCount |-> 0]]

reset_line(o) == [o EXCEPT !.line.vertices = 0]

flush_quad(o) ==
    IF o.quad.vertices = 0 THEN o
    ELSE [o EXCEPT !.stats.quadCount = @ + (o.quad.vertices \div 6),
                   !.stats.drawCalls = @ + 1]

flush_line(o) ==
    IF o.line.vertices = 0 THEN o
    ELSE [o EXCEPT !.stats.lineCount = @ + (o.line.vertices \div 2),
                   !.stats.drawCalls = @ + 1]

older_startBatch(o) ==
    [reset_line(reset_quad(o)) EXCEPT
        !.stats = [drawCalls |-> 0, lineCount |-> 0, quadCount |-> 0],
        !.lighting.lights = <<>>,
        !.lighting.lightCount = 0]

older_flush(o) == flush_line(flush_quad(o))

older_beginScene(o) == older_startBatch(o)

older_endScene(o) == older_flush(o)

\* a capacity test that fires one quad late
older_quadBatchFullLate(o) == o.quad.transforms = maxQuad + 1

\* whether drawQuad rolls the batch over after its append
older_quadBatchFull(o) == o.quad.transforms = maxQuad

older_drawQuad(o) ==
    LET n == [o EXCEPT !.quad.vertices = @ + 6,
                       !.quad.transforms = @ + 1,
                       !.quad.indexCount = @ + 1]
    IN IF older_quadBatchFull(n) THEN reset_quad(flush_quad(n)) ELSE n

\* the state after the older Renderer2D::init()
InitOlder ==
    s_older = [quad |-> [vertices |-> older_maxVertices, transforms |-> 0,
                         indexCount |-> 0],
               line |-> [vertices |-> older_maxVertices],
               lighting |-> [lights |-> <<>>, lightCount |-> 0, enabled |-> FALSE],
               stats |-> [drawCalls |-> 0, quadCount |-> 0, lineCount |-> 0]]

(***************************************************************************)
(* The game layer: is_cell_alive and update_board over a board b.          *)
(***************************************************************************)
\* the neighbour count that includes the cell itself
liveNeighboursAndSelf(b, i, j) ==
    Cardinality({c \in (-1 .. 1) \X (-1 .. 1) :
                    LET ni == c[1] + i
                        nj == c[2] + j
                    IN /\ ni >= 0 /\ ni < row /\ nj >= 0 /\ nj < col
                       /\ b[ni][nj] = 1})

\* the two loops of is_cell_alive: the live cells among the neighbours
\* that lie on the board
liveNeighbours(b, i, j) ==
    Cardinality({c \in ((-1 .. 1) \X (-1 .. 1)) \ {<<0, 0>>} :
                    LET ni == c[1] + i
                        nj == c[2] + j
                    IN /\ ni >= 0 /\ ni < row /\ nj >= 0 /\ nj < col
                       /\ b[ni][nj] = 1})

is_cell_alive(b, i, j) ==
    LET live == liveNeighbours(b, i, j)
        is_alive == b[i][j] # 0
    IN IF is_alive
       THEN IF live < 2 THEN FALSE
            ELSE IF live = 2 \/ live = 3 THEN TRUE
            ELSE FALSE
       ELSE IF live = 3 THEN TRUE
       ELSE FALSE

\* update_board from the k-th cell on, column by column, each result
\* stored into the board before the next cell is looked at
RECURSIVE updateFrom(_, _)
updateFrom(b, k) ==
    IF k = row * col THEN b
    ELSE LET j == k \div row
             i == k % row
         IN updateFrom([b EXCEPT ![i][j] = IF is_cell_alive(b, i, j) THEN 1 ELSE 0],
                       k + 1)

update_board(b) == updateFrom(b, 0)

(***************************************************************************)
(* The state after Renderer2D::init().                                     *)
(***************************************************************************)
InitRenderer ==
    /\ s_renderer =
         [quad |-> [vertices |-> Repeat(QuadVertex, maxVertices), transforms |-> 0,
                    indexCount |-> 0, transformIndexCount |-> 0],
          line |-> [vertices |-> maxVertices],
          circle |-> [vertices |-> maxVertices, indexCount |-> 0],
          lighting |-> [lights |-> <<>>, lightCount |-> 0, enabled |-> FALSE],
          textureSlots |-> [i \in 0 .. (maxTextureSlots - 1) |->
                               IF i = 0 THEN defaultTexture ELSE nullRef],
          textureSlotIndex |-> 1,
          stats |-> [drawCalls |-> 0, quadCount |-> 0, lineCount |-> 0]]
    /\ device = NewFrame

(***************************************************************************)
(* The caller.  hist records what the caller did: how many calls it made   *)
(* (ops, at most limit), whether beginScene was ever called, the last      *)
(* call, the calls of each kind and the textures drawn since the last      *)
(* beginScene, and the lights passed to addLight since the light list was  *)
(* last emptied.  Texture handles are opaque, so the caller takes them in  *)
(* the order of first use (texUsed are in use).                            *)
(***************************************************************************)
Ops == {"endScene", "flush", "nextBatch", "enableLighting", "addLight",
        "drawQuad", "drawQuadTextured", "drawLine", "drawCircle"}

NoCalls == [op \in Ops |-> 0]

InitHist(limit) ==
    hist = [begun |-> FALSE, ops |-> 0, limit |-> limit, last |-> "init",
            calls |-> NoCalls, sceneTextures |-> {}, lastTexture |-> nullRef,
            texUsed |-> 0, drawn |-> <<>>,
            lightCalls |-> <<>>]

\* int board[row][col] = { 0 }
ZeroBoard == [i \in 0 .. (row - 1) |-> [j \in 0 .. (col - 1) |-> 0]]

\* game.board is the board; the rest records the last call into the game:
\* which function, the cell and the result of is_cell_alive, and the board
\* as it was when the call was made
NoGame(b) == [board |-> b, last |-> "init", cell |-> <<0, 0>>, alive |-> FALSE,
              before |-> b]

InitBoard == game = NoGame(ZeroBoard)

Init == InitRenderer /\ InitOlder /\ InitHist(MaxOps) /\ InitBoard

M == [s |-> s_renderer, d |-> device]

Apply(m) == s_renderer' = m.s /\ device' = m.d /\ UNCHANGED <<game, s_older>>

Called(op) == [hist EXCEPT !.ops = @ + 1, !.last = op, !.calls[op] = @ + 1]

CanCall == hist.ops < hist.limit

BeginScene ==
    /\ CanCall
    /\ Apply(beginScene(M))
    /\ hist' = [hist EXCEPT !.begun = TRUE, !.ops = @ + 1, !.last = "beginScene",
                            !.calls = NoCalls, !.sceneTextures = {},
                            !.lastTexture = nullRef, !.drawn = <<>>,
                            !.lightCalls = <<>>]

EndScene == CanCall /\ Apply(endScene(M)) /\ hist' = Called("endScene")

Flush == CanCall /\ Apply(flush(M)) /\ hist' = Called("flush")

NextBatch ==
    /\ CanCall
    /\ Apply(nextBatch(M))
    /\ hist' = [Called("nextBatch") EXCEPT !.lightCalls = <<>>]

EnableLighting ==
    /\ CanCall
    /\ \E value \in BOOLEAN : Apply(enableLighting(M, value))
    /\ hist' = Called("enableLighting")

AddLight ==
    /\ CanCall
    /\ \E light \in Lights :
          /\ Apply(addLight(M, light))
          /\ hist' = [Called("addLight") EXCEPT !.lightCalls = Append(@, light)]

DrawQuad ==
    /\ CanCall
    /\ Apply(drawQuad(M))
    /\ hist' = [Called("drawQuad") EXCEPT !.drawn = Append(@, defaultTexture)]

DrawQuadTextured ==
    /\ CanCall
    /\ \E texture \in Textures :
          /\ texture <= hist.texUsed + 1
          /\ Apply(drawQuadTextured(M, texture))
          /\ hist' = [Called("drawQuadTextured") EXCEPT
                         !.sceneTextures = @ \cup {texture},
                         !.lastTexture = texture,
                         !.drawn = Append(@, texture),
                         !.texUsed = IF texture > @ THEN texture ELSE @]

DrawLine == CanCall /\ Apply(drawLine(M)) /\ hist' = Called("drawLine")

DrawCircle == CanCall /\ Apply(drawCircle(M)) /\ hist' = Called("drawCircle")

\* every entry point, a few calls deep
Next ==
    \/ BeginScene
    \/ EndScene
    \/ Flush
    \/ NextBatch
    \/ EnableLighting
    \/ AddLight
    \/ DrawQuad
    \/ DrawQuadTextured
    \/ DrawLine
    \/ DrawCircle

Spec == Init /\ [][Next]_vars

(***************************************************************************)
(* The game on its own: init_board() fills the board with random cells,    *)
(* then is_cell_alive and update_board are called on it.                   *)
(***************************************************************************)
Boards == [0 .. (row - 1) -> [0 .. (col - 1) -> {0, 1}]]

InitGame ==
    /\ InitRenderer /\ InitOlder /\ InitHist(0)
    /\ \E b \in Boards : game = NoGame(b)

IsCellAlive ==
    /\ \E i \in 0 .. (row - 1), j \in 0 .. (col - 1) :
          game' = [game EXCEPT !.last = "is_cell_alive", !.cell = <<i, j>>,
                               !.alive = is_cell_alive(game.board, i, j),
                               !.before = game.board]
    /\ UNCHANGED <<s_renderer, device, hist, s_older>>

UpdateBoard ==
    /\ game' = [NoGame(update_board(game.board)) EXCEPT
                   !.last = "update_board", !.before = game.board]
    /\ UNCHANGED <<s_renderer, device, hist, s_older>>

NextGame ==
    \/ IsCellAlive
    \/ UpdateBoard

SpecGame == InitGame /\ [][NextGame]_vars

(***************************************************************************)
(* Scenes of quads and lines only, long enough for two quad rollovers.     *)
(***************************************************************************)
QuadSceneOps == 2 * maxQuad + 3

InitQuadScene == InitRenderer /\ InitOlder /\ InitHist(QuadSceneOps) /\ InitBoard

NextQuadScene ==
    \/ BeginScene
    \/ DrawQuad
    \/ DrawLine
    \/ EndScene

SpecQuadScene == InitQuadScene /\ [][NextQuadScene]_vars

(***************************************************************************)
(* The two variants side by side: the caller makes the same call on the    *)
(* renderer and on its older variant.                                      *)
(***************************************************************************)
InitVariants == InitRenderer /\ InitOlder /\ InitHist(QuadSceneOps) /\ InitBoard

BeginSceneBoth ==
    /\ CanCall
    /\ s_renderer' = beginScene(M).s /\ device' = beginScene(M).d
    /\ s_older' = older_beginScene(s_older)
    /\ hist' = [hist EXCEPT !.begun = TRUE, !.ops = @ + 1, !.last = "beginScene",
                            !.calls = NoCalls, !.sceneTextures = {},
                            !.lastTexture = nullRef, !.drawn = <<>>,
                            !.lightCalls = <<>>]
    /\ UNCHANGED game

DrawQuadBoth ==
    /\ CanCall
    /\ s_renderer' = drawQuad(M).s /\ device' = drawQuad(M).d
    /\ s_older' = older_drawQuad(s_older)
    /\ hist' = [Called("drawQuad") EXCEPT !.drawn = Append(@, defaultTexture)]
    /\ UNCHANGED game

EndSceneBoth ==
    /\ CanCall
    /\ s_renderer' = endScene(M).s /\ device' = endScene(M).d
    /\ s_older' = older_endScene(s_older)
    /\ hist' = Called("endScene")
    /\ UNCHANGED game

NextVariants ==
    \/ BeginSceneBoth
    \/ DrawQuadBoth
    \/ EndSceneBoth

SpecVariants == InitVariants /\ [][NextVariants]_vars

(***************************************************************************)
(* Scenes of textured and untextured quads, long enough to draw one        *)
(* texture 2 * maxTextureSlots times and to exhaust the slot table.        *)
(***************************************************************************)
TexturedSceneOps == 2 * maxTextureSlots + 2

InitTexturedScene == InitRenderer /\ InitOlder /\ InitHist(TexturedSceneOps) /\ InitBoard

NextTexturedScene ==
    \/ BeginScene
    \/ DrawQuadTextured
    \/ DrawQuad
    \/ EndScene

SpecTexturedScene == InitTexturedScene /\ [][NextTexturedScene]_vars

(***************************************************************************)
(* Scenes of quads of both kinds and lines, long enough to fill a quad     *)
(* batch and draw one quad more.                                           *)
(***************************************************************************)
MixedSceneOps == maxQuad + 3

InitMixedScene == InitRenderer /\ InitOlder /\ InitHist(MixedSceneOps) /\ InitBoard

NextMixedScene ==
    \/ BeginScene
    \/ DrawQuad
    \/ DrawQuadTextured
    \/ DrawLine
    \/ EndScene

SpecMixedScene == InitMixedScene /\ [][NextMixedScene]_vars

(***************************************************************************)
(* Properties of the renderer.                                             *)
(***************************************************************************)
quad == s_renderer.quad

stats == s_renderer.stats

line == s_renderer.line

circle == s_renderer.circle

lighting == s_renderer.lighting

Min(a, b) == IF a < b THEN a ELSE b

\* draw calls the device received since the last beginScene
DeviceDraws(d) == d.quadDraws + d.lineDraws + d.circleDraws

\* primitive kinds whose batch holds something
NonEmptyKinds ==
    (IF Len(quad.vertices) # 0 THEN 1 ELSE 0)
    + (IF line.vertices # 0 THEN 1 ELSE 0)
    + (IF circle.vertices # 0 THEN 1 ELSE 0)

Ceil(n, d) == (n + d - 1) \div d

\* since the last beginScene the caller made no call outside the set S
OnlyCalls(S) == hist.begun /\ \A op \in Ops \ S : hist.calls[op] = 0

\* C1: after beginScene, whatever is drawn, flushed or rolled over, the
\* current quad batch holds at most maxQuad quads, so at most 4 * maxQuad
\* vertices and 6 * maxQuad indices.
C1_QuadBatchWithinMaxQuad ==
    hist.begun =>
        /\ quad.transforms <= maxQuad
        /\ Len(quad.vertices) <= 4 * maxQuad
        /\ quad.indexCount <= 6 * maxQuad

\* the scene so far is beginScene, N untextured drawQuad calls, one endScene
UntexturedSceneEnded ==
    /\ OnlyCalls({"drawQuad", "endScene"})
    /\ hist.calls["endScene"] = 1
    /\ hist.last = "endScene"

\* C2: a scene of N untextured drawQuad calls and one endScene reports
\* ceil(N / maxQuad) draw calls, all of them quad draw calls, and N quads.
C2_UntexturedSceneDrawCalls ==
    UntexturedSceneEnded =>
        /\ stats.drawCalls = Ceil(hist.calls["drawQuad"], maxQuad)
        /\ device.quadDraws = stats.drawCalls
        /\ stats.quadCount = hist.calls["drawQuad"]

\* maxQuad + 1 quads: one automatic rollover and the flush of endScene
C2_Witness ==
    /\ UntexturedSceneEnded
    /\ hist.calls["drawQuad"] = maxQuad + 1
    /\ stats.drawCalls = 2

\* the scene so far is beginScene and d textured drawQuad calls, each with a
\* texture not drawn before in the scene
DistinctTexturesDrawn(d) ==
    /\ OnlyCalls({"drawQuadTextured"})
    /\ hist.calls["drawQuadTextured"] = d
    /\ Cardinality(hist.sceneTextures) = d

\* C3, as stated: maxTextureSlots distinct textures fit in one batch, and
\* the (maxTextureSlots + 1)-th is the one that flushes the batch and is
\* then assigned into the emptied table.
C3_FlushAtSlotsPlusOne ==
    \A d \in 0 .. (maxTextureSlots + 1) :
        DistinctTexturesDrawn(d) =>
            IF d <= maxTextureSlots
            THEN device.quadDraws = 0 /\ quad.transforms = d
            ELSE /\ device.quadDraws = 1
                 /\ quad.transforms = 1
                 /\ s_renderer.textureSlotIndex = 2

\* C3, amended: slot 0 is the default texture's, so the batch takes
\* maxTextureSlots - 1 distinct textures; the maxTextureSlots-th flushes
\* the batch once, before it is assigned slot 1 of the emptied table, and
\* the (maxTextureSlots + 1)-th gets slot 2 without another flush.  No quad
\* is lost and the caller sees nothing.
C3_FlushAtLastFreeSlot ==
    \A d \in 0 .. (maxTextureSlots + 1) :
        DistinctTexturesDrawn(d) =>
            /\ quad.transforms + stats.quadCount = d
            /\ stats.drawCalls = device.quadDraws
            /\ 6 * stats.quadCount = device.quadIndices
            /\ d > 0 =>
                  s_renderer.textureSlots[s_renderer.textureSlotIndex - 1]
                      = hist.lastTexture
            /\ IF d < maxTextureSlots
               THEN /\ device.quadDraws = 0
                    /\ s_renderer.textureSlotIndex = d + 1
               ELSE /\ device.quadDraws = 1
                    /\ stats.quadCount = maxTextureSlots - 1
                    /\ s_renderer.textureSlotIndex = d - maxTextureSlots + 2

\* the (maxTextureSlots + 1)-th distinct texture was drawn
C3_Witness ==
    /\ DistinctTexturesDrawn(maxTextureSlots + 1)
    /\ device.quadDraws = 1
    /\ s_renderer.textureSlotIndex = 3

\* the scene so far is beginScene and k >= 1 textured drawQuad calls, all
\* with one texture, with or without the endScene that closes it
SameTextureScene ==
    /\ OnlyCalls({"drawQuadTextured", "endScene"})
    /\ Cardinality(hist.sceneTextures) = 1
    /\ hist.calls["endScene"] <= 1
    /\ hist.calls["endScene"] = 1 => hist.last = "endScene"

\* C4: drawing one texture k times never occupies more than the default
\* slot and one more, flushes nothing before endScene, and endScene
\* submits the k quads in exactly one draw call.
C4_SameTextureOneSlotOneDrawCall ==
    SameTextureScene =>
        /\ s_renderer.textureSlotIndex <= 2
        /\ IF hist.calls["endScene"] = 0
           THEN stats.drawCalls = 0 /\ device.quadDraws = 0
           ELSE /\ stats.drawCalls = 1
                /\ device.quadDraws = 1
                /\ stats.quadCount = hist.calls["drawQuadTextured"]

\* one texture drawn 2 * maxTextureSlots times, then endScene
C4_Witness ==
    /\ SameTextureScene
    /\ hist.calls["drawQuadTextured"] = 2 * maxTextureSlots
    /\ hist.last = "endScene"
    /\ stats.drawCalls = 1

\* C5: an endScene that directly follows an endScene issues no device draw
\* call and leaves drawCalls, quadCount and lineCount as they were,
\* whatever the scene drew before the first endScene.
C5_SecondEndSceneDrawsNothing ==
    [][(hist.begun /\ hist.last = "endScene" /\ EndScene) =>
          (stats' = stats /\ device' = device)]_vars

\* C6: between two beginScene calls the statistics are the totals of what
\* the device received since the first of them (quad and line draw calls,
\* quads, line segments), and they never decrease.
C6_StatsAreSceneTotals ==
    /\ [](hist.begun =>
            /\ stats.drawCalls = device.quadDraws + device.lineDraws
            /\ 6 * stats.quadCount = device.quadIndices
            /\ 2 * stats.lineCount = device.lineVertices)
    /\ [][(hist.begun /\ hist'.last # "beginScene") =>
            /\ stats'.drawCalls >= stats.drawCalls
            /\ stats'.quadCount >= stats.quadCount
            /\ stats'.lineCount >= stats.lineCount]_vars

\* C7: the light list is the first min(k, maxLight) of the k lights passed
\* to addLight since the list was last emptied, in call order, lightCount
\* is its length, and an addLight at capacity changes nothing.
C7_LightCap ==
    /\ [](/\ lighting.lights =
               SubSeq(hist.lightCalls, 1, Min(Len(hist.lightCalls), maxLight))
          /\ lighting.lightCount = Len(lighting.lights))
    /\ [][(AddLight /\ Len(hist.lightCalls) >= maxLight) =>
            UNCHANGED <<s_renderer, device>>]_vars

\* one light more than maxLight was passed, two different ones first
C7_Witness ==
    /\ Len(hist.lightCalls) = maxLight + 1
    /\ hist.lightCalls[1] # hist.lightCalls[2]
    /\ Len(lighting.lights) = maxLight

\* C8: right after beginScene the statistics are zero, the quad, line and
\* circle batches are empty and the texture table holds the default
\* texture alone, whatever came before.
C8_BeginSceneResets ==
    hist.last = "beginScene" =>
        /\ stats = [drawCalls |-> 0, quadCount |-> 0, lineCount |-> 0]
        /\ quad = [vertices |-> <<>>, transforms |-> 0,
                   indexCount |-> 0, transformIndexCount |-> 0]
        /\ line.vertices = 0
        /\ circle = [vertices |-> 0, indexCount |-> 0]
        /\ s_renderer.textureSlotIndex = 1
        /\ s_renderer.textureSlots[0] = defaultTexture

\* beginScene after a scene that drew two textures
C8_Witness ==
    /\ hist.last = "beginScene"
    /\ hist.texUsed = 2
    /\ s_renderer.textureSlots[2] # nullRef

\* C9: after beginScene, flush issues one device draw call for every
\* primitive kind whose batch is not empty, none for an empty batch, and
\* stats.drawCalls grows by one for every draw call issued.
C9_FlushCountsEveryDrawCall ==
    [][(hist.begun /\ Flush) =>
          /\ DeviceDraws(device') = DeviceDraws(device) + NonEmptyKinds
          /\ stats'.drawCalls = stats.drawCalls + NonEmptyKinds]_vars

\* C10: after beginScene the circle batch holds at most maxQuad circles:
\* no more vertices and indices than the device buffers take.
C10_CircleBatchWithinCapacity ==
    hist.begun =>
        /\ circle.vertices <= maxVertices
        /\ circle.indexCount <= maxIndices

\* the scene so far is beginScene and N drawLine calls, with or without
\* the endScene that closes it
LineScene ==
    /\ OnlyCalls({"drawLine", "endScene"})
    /\ hist.calls["endScene"] <= 1
    /\ hist.calls["endScene"] = 1 => hist.last = "endScene"

\* C11: the line batch is capped at maxVertices line vertices: after
\* beginScene it never holds more, drawLine flushes it exactly when
\* maxVertices are queued, and a scene of N drawLine calls and endScene
\* reports N lines in ceil(2N / maxVertices) line draw calls.
C11_LineCapMirrorsQuadVertexCap ==
    /\ hist.begun => line.vertices <= maxVertices
    /\ LineScene =>
          IF hist.calls["endScene"] = 0
          THEN device.lineDraws = (2 * hist.calls["drawLine"]) \div maxVertices
          ELSE /\ stats.lineCount = hist.calls["drawLine"]
               /\ device.lineDraws = Ceil(2 * hist.calls["drawLine"], maxVertices)
               /\ stats.drawCalls = device.lineDraws

\* the scene so far is beginScene, drawQuad and drawLine calls in any
\* order, and the endScene that closes it
MixedSceneEnded ==
    /\ OnlyCalls({"drawQuad", "drawQuadTextured", "drawLine", "endScene"})
    /\ hist.calls["endScene"] = 1
    /\ hist.last = "endScene"

\* quads and lines the statistics and the device account for
SceneTotals(quads, lines) ==
    /\ stats.quadCount = quads
    /\ 6 * quads = device.quadIndices
    /\ stats.lineCount = lines
    /\ 2 * lines = device.lineVertices

\* C12: after a scene of drawQuad calls of both overloads and drawLine
\* calls in any order, closed by endScene, every quad and every line was
\* submitted once, in a draw call the device buffers can take: quadCount
\* and lineCount are the numbers of drawQuad and drawLine calls.
C12_EveryPrimitiveSubmittedOnce ==
    MixedSceneEnded =>
        /\ SceneTotals(hist.calls["drawQuad"] + hist.calls["drawQuadTextured"],
                       hist.calls["drawLine"])
        /\ ~device.overrun

\* a drawQuad call that rolled the quad batch over: the device received a
\* quad draw call inside it
QuadRollover ==
    /\ hist'.last \in {"drawQuad", "drawQuadTextured"}
    /\ device'.quadDraws = device.quadDraws + 1

\* a drawLine call that rolled the line batch over
LineRollover ==
    /\ hist'.last = "drawLine"
    /\ device'.lineDraws = device.lineDraws + 1

\* C13: a quad rollover inside drawQuad leaves the line and circle batches
\* and lineCount alone and draws no line or circle; a line rollover inside
\* drawLine leaves the quad batch, the texture slot table, the circle
\* batch and quadCount alone and draws no quad or circle.
C13_RolloverOfOneKind ==
    [][/\ QuadRollover =>
            /\ line' = line /\ circle' = circle
            /\ stats'.lineCount = stats.lineCount
            /\ device'.lineDraws = device.lineDraws
            /\ device'.lineVertices = device.lineVertices
            /\ device'.circleDraws = device.circleDraws
            /\ device'.circleIndices = device.circleIndices
       /\ LineRollover =>
            /\ quad' = quad /\ circle' = circle
            /\ s_renderer'.textureSlots = s_renderer.textureSlots
            /\ s_renderer'.textureSlotIndex = s_renderer.textureSlotIndex
            /\ stats'.quadCount = stats.quadCount
            /\ device'.quadDraws = device.quadDraws
            /\ device'.quadIndices = device.quadIndices
            /\ device'.circleDraws = device.circleDraws
            /\ device'.circleIndices = device.circleIndices]_vars

\* a quad rollover with a line queued, then a line rollover with a quad
\* and a texture queued
C13_Witness ==
    /\ OnlyCalls({"drawQuadTextured", "drawLine"})
    /\ hist.last = "drawLine"
    /\ device.quadDraws = 1 /\ device.lineDraws = 1
    /\ stats.lineCount = 2 /\ line.vertices = 0
    /\ quad.transforms = 1 /\ s_renderer.textureSlotIndex = 2

\* the cells of the board next to cell (i, j): up to 8
Neighbours(i, j) ==
    {c \in (0 .. (row - 1)) \X (0 .. (col - 1)) :
        /\ c # <<i, j>>
        /\ c[1] - i \in -1 .. 1
        /\ c[2] - j \in -1 .. 1}

LiveAround(b, i, j) == Cardinality({c \in Neighbours(i, j) : b[c[1]][c[2]] = 1})

\* the rule of the game: birth on 3, survival on 2 or 3
Rule(cell, n) == (cell = 0 /\ n = 3) \/ (cell = 1 /\ n \in {2, 3})

\* C14: is_cell_alive follows the rule of the game for every cell and
\* every configuration of its neighbours, cells off the board counted
\* dead: alive for a dead cell with exactly 3 live neighbours and for a
\* live cell with 2 or 3, dead otherwise (4 or more, a live cell with
\* fewer than 2, a dead cell with any count but 3).
C14_IsCellAliveFollowsTheRule ==
    game.last = "is_cell_alive" =>
        LET i == game.cell[1]
            j == game.cell[2]
            n == LiveAround(game.board, i, j)
        IN /\ game.alive = Rule(game.board[i][j], n)
           /\ n >= 4 => ~game.alive
           /\ (game.board[i][j] = 1 /\ n < 2) => ~game.alive
           /\ (game.board[i][j] = 0 /\ n # 3) => ~game.alive
           /\ (game.board[i][j] = 0 /\ n = 3) => game.alive
           /\ (game.board[i][j] = 1 /\ n \in {2, 3}) => game.alive

\* a dead cell with all 8 neighbours on the board, 3 of them alive, found alive
C14_Witness ==
    /\ game.last = "is_cell_alive"
    /\ Cardinality(Neighbours(game.cell[1], game.cell[2])) = 8
    /\ game.board[game.cell[1]][game.cell[2]] = 0
    /\ LiveAround(game.board, game.cell[1], game.cell[2]) = 3
    /\ game.alive

\* a step in which the quad batch was flushed to the device
QuadFlushed == device'.quadDraws = device.quadDraws + 1

\* C15: every quad flush tells the shader lightCount lights (the retained
\* lights, at most maxLight) when lighting is enabled and 0 when it is
\* disabled, and uploads the light list only when lighting is enabled;
\* nothing else sets them, and enableLighting changes only the flag.
C15_LightsToldAtQuadFlush ==
    [][/\ QuadFlushed =>
            /\ lighting.lightCount = Len(lighting.lights)
            /\ lighting.lightCount <= maxLight
            /\ device'.noLights = IF lighting.enabled THEN lighting.lightCount ELSE 0
            /\ device'.lightBuffer = IF lighting.enabled THEN lighting.lights
                                     ELSE device.lightBuffer
       /\ (~QuadFlushed /\ hist'.last # "beginScene") =>
            /\ device'.noLights = device.noLights
            /\ device'.lightBuffer = device.lightBuffer
       /\ hist'.last = "enableLighting" =>
            /\ s_renderer' = [s_renderer EXCEPT
                                 !.lighting.enabled = s_renderer'.lighting.enabled]
            /\ device' = device]_vars

\* a scene ended with lighting enabled and the light list full: the shader
\* was told all of them
C15_Witness ==
    /\ hist.begun /\ hist.last = "endScene"
    /\ lighting.enabled /\ lighting.lightCount = maxLight
    /\ device.quadDraws = 1
    /\ device.noLights = maxLight
    /\ device.lightBuffer = lighting.lights

\* C16: endScene and flush reset nothing: the queued quad vertices and
\* transforms, the queued line and circle vertices, the index counts, the
\* occupied texture slots and the light list stay exactly as they were.
C16_FlushKeepsTheBatches ==
    [][hist'.last \in {"endScene", "flush"} =>
          /\ quad' = quad /\ line' = line /\ circle' = circle
          /\ s_renderer'.textureSlots = s_renderer.textureSlots
          /\ s_renderer'.textureSlotIndex = s_renderer.textureSlotIndex
          /\ lighting' = lighting]_vars

\* a scene with a textured quad, a line and a light has ended: all three
\* were drawn and are still queued
C16_Witness ==
    /\ hist.begun /\ hist.last = "endScene"
    /\ device.quadDraws = 1 /\ device.lineDraws = 1
    /\ quad.transforms = 1 /\ Len(quad.vertices) = 4 /\ quad.indexCount = 6
    /\ s_renderer.textureSlotIndex = 2
    /\ line.vertices = 2
    /\ lighting.lightCount = 1

\* C17: slot 0 of the texture table always holds the default texture, the
\* occupied slot count stays in 1 .. maxTextureSlots, the assertion of the
\* textured drawQuad never fails and no slot past the table is written.
C17_SlotTableInRange ==
    /\ s_renderer.textureSlots[0] = defaultTexture
    /\ 1 <= s_renderer.textureSlotIndex
    /\ s_renderer.textureSlotIndex <= maxTextureSlots
    /\ ~device.assertFailed
    /\ ~device.slotOverrun

\* a new texture met a full table: the batch rolled over and the texture
\* went to slot 1
C17_Witness ==
    /\ hist.last = "drawQuadTextured"
    /\ Cardinality(hist.sceneTextures) = maxTextureSlots
    /\ hist.calls["drawQuadTextured"] = maxTextureSlots
    /\ device.quadDraws = 1
    /\ s_renderer.textureSlotIndex = 2
    /\ s_renderer.textureSlots[0] = defaultTexture
    /\ s_renderer.textureSlots[1] = hist.lastTexture

\* the occupied slots past slot 0
Occupied == 1 .. (s_renderer.textureSlotIndex - 1)

\* the texture index of the quad queued last
LastQuadTexture(q) == q.vertices[Len(q.vertices)].textureIndex

\* the textured drawQuad with texture t, by what it does to the table:
\* a texture in the table is found, a new one takes the next slot, and a
\* new one that meets a full table takes slot 1 of a new batch
SlotAssigned(t) ==
    LET held == {i \in Occupied : s_renderer.textureSlots[i] = t}
        index == s_renderer.textureSlotIndex
    IN IF held # {}
       THEN /\ s_renderer'.textureSlots = s_renderer.textureSlots
            /\ s_renderer'.textureSlotIndex = index
            /\ LastQuadTexture(quad') \in held
            /\ ~QuadFlushed
       ELSE IF index < maxTextureSlots
       THEN /\ s_renderer'.textureSlots =
                  [s_renderer.textureSlots EXCEPT ![index] = t]
            /\ s_renderer'.textureSlotIndex = index + 1
            /\ LastQuadTexture(quad') = index
            /\ ~QuadFlushed
       ELSE /\ QuadFlushed
            /\ s_renderer'.textureSlots[1] = t
            /\ s_renderer'.textureSlotIndex = 2
            /\ LastQuadTexture(quad') = 1
            /\ quad'.transforms = 1

\* C18: within a batch the texture slots are given out in first-seen
\* order: a texture already in the table resolves to its slot and leaves
\* the table alone, a new one gets the next slot, so no texture is in the
\* occupied slots twice; and the table holds the default texture only
\* after every quad rollover, nextBatch and beginScene.
C18_SlotsInFirstSeenOrder ==
    /\ [](\A i, j \in Occupied :
             s_renderer.textureSlots[i] = s_renderer.textureSlots[j] => i = j)
    /\ [](\A i \in Occupied : s_renderer.textureSlots[i] \in hist.sceneTextures)
    /\ [][/\ hist'.last = "drawQuadTextured" => SlotAssigned(hist'.lastTexture)
          /\ hist'.last \in {"beginScene", "nextBatch"} =>
                s_renderer'.textureSlotIndex = 1
          /\ (hist'.last = "drawQuad" /\ QuadFlushed) =>
                s_renderer'.textureSlotIndex = 1]_vars

\* two textures took slots 1 and 2 in the order they were first drawn, and
\* the first, drawn again, resolved to slot 1
C18_Witness ==
    /\ hist.begun /\ hist.last = "drawQuadTextured"
    /\ hist.calls["drawQuadTextured"] = 3
    /\ hist.lastTexture = 1
    /\ s_renderer.textureSlotIndex = 3
    /\ s_renderer.textureSlots[1] = 1 /\ s_renderer.textureSlots[2] = 2
    /\ quad.transforms = 3
    /\ quad.vertices[4].textureIndex = 1
    /\ quad.vertices[8].textureIndex = 2
    /\ quad.vertices[12].textureIndex = 1

\* the texture the caller drew the k-th queued quad with: the queued quads
\* are the last quad.transforms quads drawn
DrawnWith(k) == hist.drawn[Len(hist.drawn) - quad.transforms + k]

\* C19: after beginScene every queued quad vertex names a queued
\* transform and an occupied texture slot, and that slot holds the texture
\* its quad was drawn with (the default texture for an untextured quad).
C19_QueuedVerticesResolve ==
    hist.begun =>
        /\ quad.transforms <= Len(hist.drawn)
        /\ \A v \in 1 .. Len(quad.vertices) :
              LET vertex == quad.vertices[v]
              IN /\ vertex.transformIndex < quad.transforms
                 /\ vertex.textureIndex < s_renderer.textureSlotIndex
                 /\ s_renderer.textureSlots[vertex.textureIndex] =
                       DrawnWith(((v - 1) \div 4) + 1)

\* a third texture rolled the batch over and an untextured quad followed:
\* the queue names slot 1, which holds the third texture, and slot 0
C19_Witness ==
    /\ hist.begun /\ hist.last = "drawQuad"
    /\ hist.drawn = <<1, 2, 3, defaultTexture>>
    /\ device.quadDraws = 1
    /\ quad.transforms = 2
    /\ quad.vertices[4] = [transformIndex |-> 0, textureIndex |-> 1]
    /\ quad.vertices[8] = [transformIndex |-> 1, textureIndex |-> 0]
    /\ s_renderer.textureSlots[1] = 3

\* C20: after beginScene the counters of each batch agree: 4 quad vertices
\* and 6 quad indices per queued transform, transformIndexCount the number
\* of queued transforms, 6 circle indices per 4 circle vertices, and an
\* even number of line vertices.
C20_BatchCountersAgree ==
    hist.begun =>
        /\ Len(quad.vertices) = 4 * quad.transforms
        /\ quad.indexCount = 6 * quad.transforms
        /\ quad.transformIndexCount = quad.transforms
        /\ circle.vertices % 4 = 0
        /\ circle.indexCount = 6 * (circle.vertices \div 4)
        /\ line.vertices % 2 = 0

\* a batch of each kind is queued, the quad batch after a rollover
C20_Witness ==
    /\ hist.begun
    /\ device.quadDraws = 1 /\ hist.last = "drawCircle"
    /\ quad.transforms = 1 /\ quad.indexCount = 6
    /\ line.vertices = 2
    /\ circle.vertices = 4 /\ circle.indexCount = 6

\* the next generation of board b, every cell from b itself
NextGeneration(b) ==
    [i \in 0 .. (row - 1) |->
        [j \in 0 .. (col - 1) |->
            IF Rule(b[i][j], LiveAround(b, i, j)) THEN 1 ELSE 0]]

\* C21: update_board advances the board by one generation: every cell's
\* new state is the rule applied to the cell and its neighbours as they
\* were before update_board started.
C21_UpdateBoardIsSynchronous ==
    game.last = "update_board" => game.board = NextGeneration(game.before)

\* since init() nothing but the calls in S was made
OnlyCallsSinceInit(S) == ~hist.begun /\ \A op \in Ops \ S : hist.calls[op] = 0

\* C22: init leaves every batch empty: before any beginScene or draw call,
\* flush and endScene draw nothing and leave the statistics at zero; and a
\* primitive drawn right after init is queued into an empty batch.
C22_InitLeavesBatchesEmpty ==
    /\ OnlyCallsSinceInit({"flush", "endScene"}) =>
          /\ DeviceDraws(device) = 0
          /\ stats = [drawCalls |-> 0, quadCount |-> 0, lineCount |-> 0]
    /\ (~hist.begun /\ hist.ops = 1 /\ hist.last = "drawQuad") =>
          (quad.transforms = 1 /\ Len(quad.vertices) = 4)
    /\ (~hist.begun /\ hist.ops = 1 /\ hist.last = "drawLine") =>
          line.vertices = 2
    /\ (~hist.begun /\ hist.ops = 1 /\ hist.last = "drawCircle") =>
          (circle.vertices = 4 /\ circle.indexCount = 6)

\* C23: the lights of a scene stay in force across the rollovers inside
\* draw calls: a quad or line rollover leaves the light list, lightCount
\* and the enabled flag unchanged and its quad flush is told the scene's
\* lights; the light list only grows by addLight and is emptied only by
\* beginScene and nextBatch, and only enableLighting changes the flag.
C23_LightsOutliveRollovers ==
    [][/\ (QuadRollover \/ LineRollover) => lighting' = lighting
       /\ QuadRollover =>
            /\ device'.noLights =
                  IF lighting'.enabled THEN Len(lighting'.lights) ELSE 0
            /\ lighting'.enabled => device'.lightBuffer = lighting'.lights
       /\ lighting'.lights # lighting.lights =>
            \/ /\ hist'.last = "addLight"
               /\ Len(lighting'.lights) = Len(lighting.lights) + 1
               /\ SubSeq(lighting'.lights, 1, Len(lighting.lights)) = lighting.lights
            \/ /\ hist'.last \in {"beginScene", "nextBatch"}
               /\ lighting'.lights = <<>>
       /\ lighting'.lightCount = Len(lighting'.lights)
       /\ lighting'.enabled # lighting.enabled => hist'.last = "enableLighting"]_vars

\* a light was added and lighting enabled, then a third texture rolled the
\* quad batch over: the light is still there and the shader was told of it
C23_Witness ==
    /\ hist.begun /\ hist.last = "drawQuadTextured"
    /\ hist.calls["addLight"] = 1 /\ hist.calls["enableLighting"] = 1
    /\ hist.calls["drawQuadTextured"] = maxTextureSlots
    /\ device.quadDraws = 1
    /\ lighting.enabled /\ lighting.lightCount = 1
    /\ lighting.lights = hist.lightCalls
    /\ device.noLights = 1 /\ device.lightBuffer = lighting.lights

\* C24: the two variants agree on untextured quads: after beginScene, N
\* untextured drawQuad calls and endScene, the older variant reports the
\* same drawCalls and quadCount as the newer one; between the maxQuad-th
\* drawQuad and the next call they differ, the older one having flushed.
C24_VariantsAgreeOnUntexturedQuads ==
    /\ UntexturedSceneEnded =>
          /\ s_older.stats.drawCalls = stats.drawCalls
          /\ s_older.stats.quadCount = stats.quadCount
          /\ stats.quadCount = hist.calls["drawQuad"]
    /\ (OnlyCalls({"drawQuad"}) /\ hist.calls["drawQuad"] = maxQuad) =>
          /\ s_older.stats.drawCalls = 1 /\ s_older.quad.transforms = 0
          /\ stats.drawCalls = 0 /\ quad.transforms = maxQuad

\* a scene of 2 * maxQuad quads has ended: both variants report 2 draw calls
C24_Witness ==
    /\ UntexturedSceneEnded
    /\ hist.calls["drawQuad"] = 2 * maxQuad
    /\ s_older.stats.drawCalls = 2 /\ stats.drawCalls = 2
    /\ s_older.stats.quadCount = 2 * maxQuad
    /\ s_older.quad.vertices = 0 /\ quad.transforms = maxQuad

====
